---------------------------- MODULE Spec2Model ----------------------------
(***************************************************************************)
(* ScriptRunner (src/src/ScriptRunner.cpp): the script host of the bot.    *)
(* One dedicated thread (m_thread) runs an event loop; go(), the game's    *)
(* signals and the script timers are delivered into that loop, and every   *)
(* script callback (main script, event handler, timer callback) runs there.*)
(* A callback is modelled as a sequence of host-API calls made by the      *)
(* script followed by its end, with one of the outcomes "none"            *)
(* (returned), "error" (uncaught error) or "exit"                          *)
(* (uncaught error whose text is "Error: SystemExit").                     *)
(***************************************************************************)
EXTENDS Integers, Sequences, FiniteSets, TLC

\* ------------------------------------------------------------- bounds
MaxGo == 2          \* go() requests made by foreign threads
MaxQueue == 1       \* events waiting in the dedicated thread's queue
MaxTimerIds == 2    \* timers created over a run (ids 0 .. MaxTimerIds-1)
NumPtrs == 2        \* QTimer objects alive at the same time
NumHandlers == 2    \* distinct script functions used as event handlers
MaxHandlers == 2    \* length of one event's handler list
FireCap == 2        \* fireCount saturates here

Ptrs == 1..NumPtrs
Handlers == 1..NumHandlers
TimerIds == 0..(MaxTimerIds - 1)
NoCode == -1

\* The names the handler-registration resource declares, and a name it does
\* not declare (a custom event nobody registered).
DeclaredEvents == {"onChat"}
UndeclaredEvent == "onCustom"
Outcomes == {"none", "error", "exit"}
ScriptPcs == {"main", "handler", "timer"}
NoTf == [id |-> -1, repeat |-> FALSE]
\* no game-engine operation
NoOp == [op |-> "none", pt |-> <<0, 0, 0>>]

VARIABLES
    alive,            \* the process has not aborted on a failed assertion
    thr,              \* m_thread: "starting", "running" (in its event loop), "exited"
    pc,               \* what the dedicated thread executes: "idle" or a script callback
    evq,              \* posted events of the dedicated thread: "go" or an event name
    m_exiting, m_started_game, m_timer_count,
    m_timer_ptrs,     \* id -> QTimer*
    m_script_timers,  \* QTimer* -> TimedFunction
    m_handler_map,    \* event name -> handler list
    exc,              \* the engine's uncaught exception between callbacks
    thrown,           \* the ArgumentError, if any, of the running callback's last host-API call
    connections,      \* how many times go() connected the game's signals
    gameStarts,       \* calls of m_game->start()
    appExit, threadExit, gameShutdown,   \* codes given to the three exit paths
    warned,           \* a diagnostic was written with qWarning
    cur_event, handlers_list, idx,       \* raiseEvent's locals
    tf,               \* dispatchTimeout's local copy of the TimedFunction
    \* history (not program state)
    cycleReg,         \* the handler list when the current/last raise began
    invoked,          \* handlers called in the current/last dispatch cycle
    cycleErr,         \* a handler of the current cycle ended with an uncaught error
    fireCount,        \* per one-shot timer id, callback invocations (saturating)
    goRequested, goExecuted, goThreads,
    gameOp            \* the game-engine operation the last game-facing host call made

vars == <<alive, thr, pc, evq, m_exiting, m_started_game, m_timer_count,
          m_timer_ptrs, m_script_timers, m_handler_map, exc, thrown, connections,
          gameStarts, appExit, threadExit, gameShutdown, warned, cur_event,
          handlers_list, idx, tf, cycleReg, invoked, cycleErr, fireCount,
          goRequested, goExecuted, goThreads, gameOp>>

timerVars == <<m_timer_count, m_timer_ptrs, m_script_timers>>
exitVars == <<m_exiting, thr, appExit, threadExit, gameShutdown>>
raiseVars == <<cur_event, handlers_list, idx, cycleReg, invoked, cycleErr>>
goHist == <<goRequested, goExecuted, goThreads>>

\* ------------------------------------------------------------- helpers
Min(a, b) == IF a < b THEN a ELSE b

\* f without the key k
Without(f, k) == [x \in (DOMAIN f) \ {k} |-> f[x]]
\* f with k mapped to v
With(f, k, v) == [x \in (DOMAIN f) \cup {k} |-> IF x = k THEN v ELSE f[x]]

EmptyMap == [x \in {} |-> 0]

\* create_handlers.js: every declared event name maps to an empty list
InitialHandlerMap == [e \in DeclaredEvents |-> << >>]

Init ==
    /\ alive = TRUE
    /\ thr = "starting"
    /\ pc = "idle"
    /\ evq = << >>
    /\ m_exiting = FALSE
    /\ m_started_game = FALSE
    /\ m_timer_count = 0
    /\ m_timer_ptrs = EmptyMap
    /\ m_script_timers = EmptyMap
    /\ m_handler_map = EmptyMap
    /\ exc = "none"
    /\ thrown = "none"
    /\ connections = 0
    /\ gameStarts = 0
    /\ appExit = NoCode
    /\ threadExit = NoCode
    /\ gameShutdown = NoCode
    /\ warned = FALSE
    /\ cur_event = "none"
    /\ handlers_list = << >>
    /\ idx = 0
    /\ tf = NoTf
    /\ cycleReg = << >>
    /\ invoked = << >>
    /\ cycleErr = FALSE
    /\ fireCount = [i \in TimerIds |-> 0]
    /\ goRequested = 0
    /\ goExecuted = 0
    /\ goThreads = {}
    /\ gameOp = NoOp

\* ------------------------------------------------------------- shutdown, checkEngine
\* (mutant of shutdown: always signalled directly to the application)
shutdown_AlwaysDirect(return_code) ==
    /\ m_exiting' = TRUE
    /\ appExit' = return_code
    /\ UNCHANGED <<thr, threadExit, gameShutdown>>

\* (mutant of shutdown: the exiting flag is not set)
shutdown_NoFlag(return_code) ==
    /\ UNCHANGED m_exiting
    /\ IF m_started_game
         THEN /\ thr' = "exited"
              /\ threadExit' = return_code
              /\ gameShutdown' = return_code
              /\ UNCHANGED appExit
         ELSE /\ appExit' = return_code
              /\ UNCHANGED <<thr, threadExit, gameShutdown>>

\* shutdown(return_code): the exiting flag, then the agent's shutdown path if the
\* agent had started, QCoreApplication::exit otherwise.
shutdown(return_code) ==
    /\ m_exiting' = TRUE
    /\ IF m_started_game
         THEN /\ thr' = "exited"
              /\ threadExit' = return_code
              /\ gameShutdown' = return_code
              /\ UNCHANGED appExit
         ELSE /\ appExit' = return_code
              /\ UNCHANGED <<thr, threadExit, gameShutdown>>

\* (mutant of EngineFaulted: SystemExit is not taken for an uncaught exception)
EngineFaulted_NotOnExit(e) == ~m_exiting /\ e = "error"

\* Does checkEngine act on the engine state e ?
EngineFaulted(e) == ~m_exiting /\ e # "none"

\* checkEngine with the engine's uncaught exception e: nothing when already
\* exiting or when there is none; else a diagnostic unless the exception reads
\* "Error: SystemExit", and shutdown(1).
checkEngine(e) ==
    IF EngineFaulted(e)
      THEN /\ warned' = (warned \/ e # "exit")
           /\ shutdown(1)
      ELSE UNCHANGED <<warned, exitVars>>


\* ------------------------------------------------------------- threads, go()
\* (mutant of LoopIdle: the loop delivers without waiting for the running slot)
LoopIdle_Always == TRUE

\* The event loop of m_thread takes the next posted event or timeout only after
\* the slot it is running has returned (every receiver lives in m_thread, line 35,
\* and no slot runs a nested loop).
LoopIdle == pc = "idle"

\* QThread::start(): the dedicated thread enters its event loop
ThreadReady ==
    /\ alive /\ thr = "starting"
    /\ thr' = "running"
    /\ UNCHANGED <<alive, pc, evq, timerVars, m_exiting, m_started_game, m_handler_map,
                   exc, thrown, connections, gameStarts, appExit, threadExit,
                   gameShutdown, warned, raiseVars, tf, fireCount, goHist>>
    /\ UNCHANGED gameOp

\* (mutant of QueuesGo: the thread check is missing, go() always runs its body)
QueuesGo_Never(caller) == FALSE

\* go(), line 40: QThread::currentThread() != m_thread
QueuesGo(caller) == caller # "dedicated"

\* go(), lines 47-100: the globals, the handler map, the main script file, which
\* internalReadFile finds (fileFound) or not
GoBodyWith(caller, fileFound) ==
    /\ pc = "idle"
    /\ goExecuted' = goExecuted + 1
    /\ goThreads' = goThreads \cup {caller}
    /\ m_handler_map' = InitialHandlerMap
    /\ exc' = "none"
    /\ thrown' = "none"
    /\ IF fileFound
         THEN /\ pc' = "main"
              /\ UNCHANGED <<warned, exitVars>>
         ELSE /\ warned' = TRUE
              /\ shutdown(1)
              /\ pc' = "idle"
    /\ UNCHANGED <<alive, timerVars, m_started_game, connections, gameStarts,
                   raiseVars, tf, fireCount>>

GoBody(caller) == \E fileFound \in BOOLEAN : GoBodyWith(caller, fileFound)

\* go() called by `caller`, q being the dedicated thread's queue at the call
GoCall(caller, q) ==
    IF QueuesGo(caller)
      THEN /\ Len(q) < MaxQueue
           /\ evq' = Append(q, "go")
           /\ UNCHANGED <<alive, pc, timerVars, exitVars, m_started_game, m_handler_map,
                          exc, thrown, connections, gameStarts, warned, raiseVars, tf, fireCount, goExecuted, goThreads>>
      ELSE /\ evq' = q
           /\ GoBody(caller)

\* a thread other than m_thread calls go()
ForeignGo ==
    /\ alive /\ goRequested < MaxGo
    /\ goRequested' = goRequested + 1
    /\ GoCall("foreign", evq)
    /\ UNCHANGED gameOp

\* the event loop delivers a queued go() on the dedicated thread
DeliverGo ==
    /\ alive /\ thr = "running" /\ LoopIdle
    /\ evq # << >> /\ Head(evq) = "go"
    /\ UNCHANGED goRequested
    /\ GoCall("dedicated", Tail(evq))
    /\ UNCHANGED gameOp

\* go(), lines 99-124: the main script's evaluation ended with `outcome`
EndMain(outcome) ==
    /\ alive /\ pc = "main"
    /\ exc' = outcome
    /\ checkEngine(outcome)
    /\ IF m_exiting'
         THEN UNCHANGED <<connections, m_started_game, gameStarts>>
         ELSE /\ connections' = connections + 1
              /\ m_started_game' = TRUE
              /\ gameStarts' = gameStarts + 1
    /\ pc' = "idle"
    /\ thrown' = "none"
    /\ UNCHANGED <<alive, evq, timerVars, m_handler_map, raiseVars, tf, fireCount, goHist>>
    /\ UNCHANGED gameOp

\* ------------------------------------------------------------- events
\* the game emits a signal: one queued slot call per connection made by go()
EmitSignal(ev) ==
    /\ alive /\ connections > 0 /\ thr # "exited"
    /\ Len(evq) + connections <= MaxQueue
    /\ evq' = evq \o [i \in 1..connections |-> ev]
    /\ UNCHANGED <<alive, pc, timerVars, exitVars, m_started_game, m_handler_map, exc,
                   thrown, connections, gameStarts, warned, raiseVars, tf,
                   fireCount, goHist>>
    /\ UNCHANGED gameOp

\* (mutant of Snapshot: the copy is built back to front)
Snapshot_Reversed(handlers_value, length) ==
    [i \in 1..length |-> handlers_value[length + 1 - i]]

\* raiseEvent, lines 299-302: the copy of the handler array
Snapshot(handlers_value, length) == [i \in 1..length |-> handlers_value[i]]

\* (mutant of CycleList: the loop walks the live array, not the copy)
CycleList_Live(snapshot, live) == live

\* raiseEvent, line 303: the list the foreach walks
CycleList(snapshot, live) == snapshot

\* raiseEvent(event_name), up to the first handler's call
raiseEvent(event_name) ==
    LET present == event_name \in DOMAIN m_handler_map
        handlers_value == IF present THEN m_handler_map[event_name] ELSE << >>
        length == Len(handlers_value)
    IN  IF ~present
          THEN \* Q_ASSERT(handlers_value.isArray()): aborts where assertions are
               \* compiled in; elsewhere length reads 0
               /\ \E assertOn \in BOOLEAN : alive' = ~assertOn
               /\ UNCHANGED <<pc, raiseVars, thrown>>
        ELSE IF length = 0
          THEN UNCHANGED <<alive, pc, raiseVars, thrown>>
        ELSE /\ handlers_list' = Snapshot(handlers_value, length)
             /\ cur_event' = event_name
             /\ cycleReg' = handlers_value
             /\ cycleErr' = FALSE
             /\ idx' = 1
             /\ invoked' = << CycleList(handlers_list', handlers_value)[1] >>
             /\ pc' = "handler"
             /\ thrown' = "none"
             /\ UNCHANGED alive

\* the event loop delivers a queued slot call: handleChatReceived and the like
DeliverEvent ==
    /\ alive /\ thr = "running" /\ LoopIdle
    /\ evq # << >> /\ Head(evq) \in DeclaredEvents
    /\ evq' = Tail(evq)
    /\ raiseEvent(Head(evq))
    /\ UNCHANGED <<timerVars, exitVars, m_started_game, m_handler_map, exc, connections,
                   gameStarts, warned, tf, fireCount, goHist>>
    /\ UNCHANGED gameOp

\* raiseEvent is called, on the dedicated thread, with a name the registration
\* resource does not declare
RaiseUndeclared ==
    /\ alive /\ thr = "running" /\ pc = "idle"
    /\ connections > 0
    /\ raiseEvent(UndeclaredEvent)
    /\ UNCHANGED <<evq, timerVars, exitVars, m_started_game, m_handler_map, exc, connections,
                   gameStarts, warned, tf, fireCount, goHist>>
    /\ UNCHANGED gameOp

\* raiseEvent, lines 303-307: a handler's call ended with `outcome`; checkEngine,
\* then the next handler of the list, if any
EndHandler(outcome) ==
    /\ alive /\ pc = "handler"
    /\ exc' = IF outcome # "none" THEN outcome ELSE exc
    /\ checkEngine(exc')
    /\ LET list == CycleList(handlers_list, m_handler_map[cur_event])
       IN  IF idx < Len(list)
             THEN /\ idx' = idx + 1
                  /\ invoked' = Append(invoked, list[idx + 1])
                  /\ cycleErr' = (cycleErr \/ outcome # "none")
                  /\ pc' = "handler"
                  /\ UNCHANGED <<cur_event, handlers_list, cycleReg>>
             ELSE /\ pc' = "idle"
                  /\ idx' = 0
                  /\ invoked' = << >>
                  /\ cur_event' = "none"
                  /\ handlers_list' = << >>
                  /\ cycleReg' = << >>
                  /\ cycleErr' = FALSE
    /\ thrown' = "none"
    /\ UNCHANGED <<alive, evq, timerVars, m_started_game, m_handler_map, connections,
                   gameStarts, tf, fireCount, goHist>>
    /\ UNCHANGED gameOp

\* ------------------------------------------------------------- timers
\* (mutant of RemovedOnFire: a fired one-shot timer is left registered)
RemovedOnFire_Never(t) == FALSE

\* dispatchTimeout, line 168
RemovedOnFire(t) == ~t.repeat

\* the QTimer p times out while the loop is idle: dispatchTimeout with sender() = p,
\* up to the callback's call
dispatchTimeout(p) ==
    /\ alive /\ thr = "running" /\ LoopIdle
    /\ p \in DOMAIN m_script_timers
    /\ tf' = m_script_timers[p]
    /\ IF RemovedOnFire(tf')
         THEN /\ m_timer_ptrs' = Without(m_timer_ptrs, tf'.id)
              /\ m_script_timers' = Without(m_script_timers, p)
         ELSE UNCHANGED <<m_timer_ptrs, m_script_timers>>
    /\ fireCount' = IF tf'.repeat THEN fireCount
                    ELSE [fireCount EXCEPT ![tf'.id] = Min(@ + 1, FireCap)]
    /\ pc' = "timer"
    /\ thrown' = "none"
    /\ UNCHANGED <<alive, evq, m_timer_count, exitVars, m_started_game, m_handler_map,
                   exc, connections, gameStarts, warned, raiseVars, goHist>>
    /\ UNCHANGED gameOp

\* dispatchTimeout, line 173: the callback's call ended with `outcome`
EndTimer(outcome) ==
    /\ alive /\ pc = "timer"
    /\ exc' = IF outcome # "none" THEN outcome ELSE exc
    /\ pc' = "idle"
    /\ tf' = NoTf
    /\ thrown' = "none"
    /\ UNCHANGED <<alive, evq, timerVars, exitVars, m_started_game, m_handler_map,
                   connections, gameStarts, warned, raiseVars, fireCount, goHist>>
    /\ UNCHANGED gameOp


\* ------------------------------------------------------------- the script's host-API calls
InScript == alive /\ pc \in ScriptPcs

\* argCount, lines 503-517 (arg_count_max = -1 stands for arg_count_min)
argCount(argc, arg_count_min, arg_count_max) ==
    LET max == IF arg_count_max = -1 THEN arg_count_min ELSE arg_count_max
    IN  arg_count_min <= argc /\ argc <= max

\* the arity setTimeout and setInterval ask for (lines 180, 196)
SetTimeoutArity == 2
\* the arity clearTimeout asks for (line 226); clearInterval is the same function
ClearTimeoutArity == 2

\* (mutant of setTimeout: the id counter is read but not advanced)
setTimeout_SameId(p, repeat) ==
    /\ m_timer_count < MaxTimerIds
    /\ p \in Ptrs \ DOMAIN m_script_timers
    /\ \A q \in Ptrs \ DOMAIN m_script_timers : p <= q
    /\ m_timer_ptrs' = With(m_timer_ptrs, m_timer_count, p)
    /\ m_script_timers' = With(m_script_timers, p, [id |-> m_timer_count, repeat |-> repeat])
    /\ m_timer_count' = m_timer_count

\* setTimeout(func, ms, this_obj, repeat), lines 208-220, with `new QTimer` at p
\* (the allocator hands out the lowest free address)
setTimeout(p, repeat) ==
    /\ m_timer_count < MaxTimerIds
    /\ p \in Ptrs \ DOMAIN m_script_timers
    /\ \A q \in Ptrs \ DOMAIN m_script_timers : p <= q
    /\ m_timer_ptrs' = With(m_timer_ptrs, m_timer_count, p)
    /\ m_script_timers' = With(m_script_timers, p, [id |-> m_timer_count, repeat |-> repeat])
    /\ m_timer_count' = m_timer_count + 1

\* the native setTimeout / setInterval, lines 176-206
NativeSchedule(argc, funcIsFunction, msIsNumber, repeat) ==
    /\ InScript
    /\ IF argCount(argc, SetTimeoutArity, -1) /\ funcIsFunction /\ msIsNumber
         THEN /\ \E p \in Ptrs : setTimeout(p, repeat)
              /\ thrown' = "none"
         ELSE /\ thrown' = "ArgumentError"
              /\ UNCHANGED timerVars
    /\ UNCHANGED <<alive, pc, evq, exitVars, m_started_game, m_handler_map, exc,
                   connections, gameStarts, warned, raiseVars, tf, fireCount, goHist>>
    /\ UNCHANGED gameOp

JsSetTimeout(argc, funcIsFunction, msIsNumber) ==
    NativeSchedule(argc, funcIsFunction, msIsNumber, FALSE)

JsSetInterval(argc, funcIsFunction, msIsNumber) ==
    NativeSchedule(argc, funcIsFunction, msIsNumber, TRUE)

\* the native clearTimeout / clearInterval, lines 222-238
JsClearTimeout(argc, idIsNumber, int_id) ==
    /\ InScript
    /\ IF argCount(argc, ClearTimeoutArity, -1) /\ idIsNumber
         THEN LET ptr == IF int_id \in DOMAIN m_timer_ptrs THEN m_timer_ptrs[int_id] ELSE 0
              IN  /\ m_timer_ptrs' = Without(m_timer_ptrs, int_id)
                  /\ m_script_timers' = Without(m_script_timers, ptr)
                  /\ thrown' = "none"
                  /\ UNCHANGED m_timer_count
         ELSE /\ thrown' = "ArgumentError"
              /\ UNCHANGED timerVars
    /\ UNCHANGED <<alive, pc, evq, exitVars, m_started_game, m_handler_map, exc,
                   connections, gameStarts, warned, raiseVars, tf, fireCount, goHist>>
    /\ UNCHANGED gameOp

\* the native exit, lines 347-362: with valid arguments it throws "SystemExit",
\* which ends the callback with outcome "exit" unless the script catches it
JsExit(argc, codeIsNumber) ==
    /\ InScript
    /\ thrown' = IF argCount(argc, 0, 1) /\ (argc = 1 => codeIsNumber)
                   THEN "none" ELSE "ArgumentError"
    /\ UNCHANGED <<alive, pc, evq, timerVars, exitVars, m_started_game, m_handler_map,
                   exc, connections, gameStarts, warned, raiseVars, tf, fireCount, goHist>>
    /\ UNCHANGED gameOp

\* the native include, lines 310-330, called with one string: the file is missing
\* (an error is thrown to the script), or its evaluation ends with `result` and
\* checkEngine runs before include returns
JsInclude(fileFound, result) ==
    /\ InScript
    /\ IF fileFound
         THEN /\ checkEngine(result)
              /\ thrown' = "none"
         ELSE /\ thrown' = "none"
              /\ UNCHANGED <<warned, exitVars>>
    /\ UNCHANGED <<alive, pc, evq, timerVars, m_started_game, m_handler_map, exc,
                   connections, gameStarts, raiseVars, tf, fireCount, goHist>>
    /\ UNCHANGED gameOp

\* s without its first occurrence of h
RECURSIVE RemoveFirst(_, _)
RemoveFirst(s, h) ==
    IF s = << >> THEN << >>
    ELSE IF Head(s) = h THEN Tail(s)
    ELSE << Head(s) >> \o RemoveFirst(Tail(s), h)

\* the script registers handler h for event ev (appended to the list)
JsAddHandler(ev, h) ==
    /\ InScript
    /\ ev \in DOMAIN m_handler_map
    /\ Len(m_handler_map[ev]) < MaxHandlers
    /\ thrown' = "none"
    /\ m_handler_map' = [m_handler_map EXCEPT ![ev] = Append(@, h)]
    /\ UNCHANGED <<alive, pc, evq, timerVars, exitVars, m_started_game, exc,
                   connections, gameStarts, warned, raiseVars, tf, fireCount, goHist>>
    /\ UNCHANGED gameOp

\* the script removes handler h of event ev
JsRemoveHandler(ev, h) ==
    /\ InScript
    /\ ev \in DOMAIN m_handler_map
    /\ \E i \in 1..Len(m_handler_map[ev]) : m_handler_map[ev][i] = h
    /\ thrown' = "none"
    /\ m_handler_map' = [m_handler_map EXCEPT ![ev] = RemoveFirst(@, h)]
    /\ UNCHANGED <<alive, pc, evq, timerVars, exitVars, m_started_game, exc,
                   connections, gameStarts, warned, raiseVars, tf, fireCount, goHist>>
    /\ UNCHANGED gameOp

\* ------------------------------------------------------------- game-facing host calls
\* everything a game-facing host call leaves alone
hostVars == <<alive, thr, pc, evq, timerVars, m_exiting, m_started_game, m_handler_map,
              exc, connections, gameStarts, appExit, threadExit, gameShutdown, warned,
              raiseVars, tf, fireCount, goHist>>

\* Coordinates are written in hundredths: 349 is 3.49, -150 is -1.5.
Scale == 100
Coords == {-250, -150, -149, -50, 49, 50, 150, 250, 349}
\* the points a script passes: every value on the first axis, a negative half or
\* a positive one on the second, a negative half or a non-half on the third
Points == Coords \X {-150, 250} \X {-50, 349}

\* std::floor of a value given in hundredths
Floor(v) == v \div Scale

\* (mutant of valueToNearestInt: halves are rounded away from zero)
valueToNearestInt_HalfAway(v) ==
    IF v >= 0 THEN Floor(v + Scale \div 2) ELSE -Floor(-v + Scale \div 2)

\* valueToNearestInt, line 500: (int)std::floor(value.toNumber() + 0.5)
valueToNearestInt(v) == Floor(v + Scale \div 2)

\* What a property of the point argument holds: "num" a number, "absent" nothing
\* (property() is invalid and toNumber() reads 0), "nan" a value that is not a
\* number and converts to NaN.
CoordKinds == {"num", "absent", "nan"}
\* the kinds of x, y, z a script passes
KindTriples == {<<"num", "num", "num">>, <<"absent", "num", "num">>,
                <<"num", "nan", "num">>, <<"num", "num", "absent">>,
                <<"absent", "absent", "absent">>}

\* the int type of the build
MaxInt == 2147483647
MinInt == -MaxInt - 1
\* (int) of a NaN is undefined: any int may come out; these stand for them
IntSample == {MinInt, 0, MaxInt}

\* the ints blockAt can compute for a coordinate of kind k holding v
NearestInts(k, v) ==
    IF k = "nan" THEN IntSample
    ELSE {valueToNearestInt(IF k = "absent" THEN 0 ELSE v)}

\* a game-facing host call ends: with an ArgumentError and no operation, or with op
GameCall(valid, op) ==
    /\ InScript
    /\ IF valid
         THEN thrown' = "none" /\ gameOp' = op
         ELSE thrown' = "ArgumentError" /\ gameOp' = NoOp
    /\ UNCHANGED hostVars

\* the native chat, lines 403-415
JsChat(argc, isString) ==
    GameCall(argCount(argc, 1, -1) /\ isString, [NoOp EXCEPT !.op = "sendChat"])

\* the native itemStackHeight, lines 426-436
JsItemStackHeight(argc, isNumber) ==
    GameCall(argCount(argc, 1, -1) /\ isNumber, [NoOp EXCEPT !.op = "itemStackHeight"])

\* the native setControlState, lines 481-496
JsSetControlState(argc, isNumber, isBool) ==
    GameCall(argCount(argc, 2, -1) /\ isNumber /\ isBool,
             [NoOp EXCEPT !.op = "setControlActivated"])

\* the native blockAt, lines 447-463: one argument that is an object; its x, y, z
\* are of kinds k and, where numbers, hold v
JsBlockAt(argc, isObject, k, v) ==
    \E x \in NearestInts(k[1], v[1]), y \in NearestInts(k[2], v[2]),
       z \in NearestInts(k[3], v[3]) :
        GameCall(argCount(argc, 1, -1) /\ isObject, [op |-> "blockAt", pt |-> <<x, y, z>>])

\* ------------------------------------------------------------- specification
\* the argument lists the script tries: <<count, first is of its type, second is>>
ScheduleArgs == {<<2, TRUE, TRUE>>, <<1, TRUE, TRUE>>, <<3, TRUE, TRUE>>,
                 <<2, FALSE, TRUE>>, <<2, TRUE, FALSE>>}
ClearArgs == {<<1, TRUE>>, <<2, TRUE>>, <<2, FALSE>>, <<3, TRUE>>}
ExitArgs == {<<0, TRUE>>, <<1, TRUE>>, <<1, FALSE>>, <<2, TRUE>>}

ScriptStep ==
    \/ \E a \in ScheduleArgs : JsSetTimeout(a[1], a[2], a[3])
    \/ \E a \in ScheduleArgs : JsSetInterval(a[1], a[2], a[3])
    \/ \E a \in ClearArgs, id \in 0..MaxTimerIds : JsClearTimeout(a[1], a[2], id)
    \/ \E a \in ExitArgs : JsExit(a[1], a[2])
    \/ \E found \in BOOLEAN, r \in Outcomes : JsInclude(found, r)
    \/ \E ev \in DeclaredEvents, h \in Handlers : JsAddHandler(ev, h)
    \/ \E ev \in DeclaredEvents, h \in Handlers : JsRemoveHandler(ev, h)

ScriptEnd ==
    \/ \E o \in Outcomes : EndMain(o)
    \/ \E o \in Outcomes : EndHandler(o)
    \/ \E o \in Outcomes : EndTimer(o)

Loop ==
    \/ DeliverGo
    \/ DeliverEvent
    \/ RaiseUndeclared
    \/ \E p \in Ptrs : dispatchTimeout(p)

Environment ==
    \/ ThreadReady
    \/ ForeignGo
    \/ \E ev \in DeclaredEvents : EmitSignal(ev)

Next == ScriptStep \/ ScriptEnd \/ Loop \/ Environment

Spec == Init /\ [][Next]_vars


\* The event loop of a running thread keeps delivering: posted events and timeouts
\* are delivered whenever the loop comes back to idle, a started thread enters its
\* loop, and a script callback returns.
Fairness ==
    /\ WF_vars(ThreadReady)
    /\ WF_vars(ScriptEnd)
    /\ SF_vars(DeliverGo)
    /\ SF_vars(DeliverEvent)
    /\ \A p \in Ptrs : SF_vars(dispatchTimeout(p))

FairSpec == Spec /\ Fairness

\* blockAt's argument lists that fail its checks: <<count, the first is an object>>
BlockAtBadArgs == {<<0, TRUE>>, <<2, TRUE>>, <<1, FALSE>>}

\* The host up to the main script's evaluation, and the game-facing calls the
\* script makes.
GameApiStep ==
    \/ \E argc \in 0..2, isString \in BOOLEAN : JsChat(argc, isString)
    \/ \E argc \in 0..2, isNumber \in BOOLEAN : JsItemStackHeight(argc, isNumber)
    \/ \E argc \in 1..3, isNumber \in BOOLEAN, isBool \in BOOLEAN :
          JsSetControlState(argc, isNumber, isBool)
    \/ \E k \in KindTriples, v \in Points : JsBlockAt(1, TRUE, k, v)
    \/ \E a \in BlockAtBadArgs, v \in {<<150, 250, 349>>} :
          JsBlockAt(a[1], a[2], <<"num", "num", "num">>, v)

ApiNext == ThreadReady \/ ForeignGo \/ DeliverGo \/ GameApiStep

ApiSpec == Init /\ [][ApiNext]_vars


\* ------------------------------------------------------------- properties
\* a is the beginning of b
IsPrefix(a, b) == Len(a) <= Len(b) /\ \A i \in 1..Len(a) : a[i] = b[i]

\* this step begins a script callback: the main script's evaluation, a handler's
\* call (the first of a cycle or the next one) or a timer callback's call
CallbackBegins ==
    /\ pc' \in ScriptPcs
    /\ pc = "idle" \/ idx' # idx

\* the code given to whichever exit path was taken
ExitCodes == {appExit, threadExit, gameShutdown} \ {NoCode}

\* C1: once the exiting flag is true, nothing more is evaluated and no handler
\* or timer callback is called: no callback begins with the flag set.
C1_NothingRunsOnceExiting == [][m_exiting' => ~CallbackBegins]_vars

\* C2: a handler's uncaught error ends the dispatch cycle (no later handler of
\* the snapshot is called) and the host is Exiting with code 1.
C2_UncaughtErrorHaltsCycle ==
    [][(pc = "handler" /\ EndHandler("error"))
         => (pc' = "idle" /\ m_exiting' /\ ExitCodes' = {1})]_vars

\* C3: clearTimeout(id) / clearInterval(id), the id being the only argument, on a
\* registered timer removes its entry (so its callback is never called again).
C3_CancelRemovesTimer ==
    [][\A id \in TimerIds :
          (id \in DOMAIN m_timer_ptrs /\ JsClearTimeout(1, TRUE, id))
            => id \notin DOMAIN m_timer_ptrs']_vars

\* C4: a callback of any kind that ends with exit()'s SystemExit leaves the host
\* Exiting, writes no diagnostic, and no callback is called afterwards.
C4_ExitEndsEverything ==
    [][(EndMain("exit") \/ EndHandler("exit") \/ EndTimer("exit"))
         => (m_exiting' /\ warned' = warned /\ pc' = "idle")]_vars

\* C5: a timer callback that ends with an uncaught error leaves the host Exiting.
C5_TimerErrorDetected == [][EndTimer("error") => m_exiting']_vars


\* timer id i is registered
Live(i) == i \in DOMAIN m_timer_ptrs
\* the callback of timer id i is being called
Firing(i) == pc = "timer" /\ tf.id = i
\* the host is Exiting, or the process aborted
HostStopped == m_exiting \/ ~alive
\* the dedicated thread's loop has stopped and nothing is running on it
RunOver == thr = "exited" /\ pc = "idle"

C7_AllHandlersInOrder ==
    /\ []((pc = "handler" /\ ~cycleErr)
            => (idx <= Len(cycleReg) /\ invoked = SubSeq(cycleReg, 1, idx)))
    /\ [][(pc = "handler" /\ ~cycleErr /\ EndHandler("none") /\ pc' = "idle")
            => invoked = cycleReg]_vars

\* C7 witness: the second of two different handlers is being called, in order
C7_Witness ==
    /\ pc = "handler" /\ ~cycleErr /\ idx = 2
    /\ invoked = cycleReg /\ invoked[1] # invoked[2]

\* C8: the handlers called in a cycle are those of the list as it was when the
\* raise began, whatever the handlers did to the list meanwhile; the next raise
\* starts from the list as it then is.
C8_SnapshotDecidesCycle ==
    /\ [](pc = "handler"
            => (handlers_list = cycleReg /\ Len(invoked) = idx /\ IsPrefix(invoked, cycleReg)))
    /\ [][(pc = "handler" /\ ~cycleErr /\ EndHandler("none") /\ pc' = "idle")
            => (invoked = cycleReg /\ idx = Len(cycleReg))]_vars
    /\ [][(DeliverEvent /\ pc' = "handler")
            => (cycleReg' = m_handler_map[Head(evq)] /\ handlers_list' = cycleReg'
                /\ invoked' = << cycleReg'[1] >>)]_vars

\* C8 witness: both handlers were removed during the cycle and the second one is
\* called all the same
C8_Witness ==
    /\ pc = "handler" /\ ~cycleErr /\ idx = 2 /\ invoked = cycleReg
    /\ m_handler_map[cur_event] = << >>

\* C9: a raise on a name with no handler (an empty list, or no list at all) calls
\* nothing, fails no assertion and leaves the host as it was.
C9_RaiseOfNothingIsNoOp ==
    [][(RaiseUndeclared \/ (DeliverEvent /\ pc' = "idle"))
         => (alive' /\ pc' = "idle"
             /\ UNCHANGED <<m_handler_map, timerVars, exitVars, exc, warned>>)]_vars

\* this step starts the call of a script callback
CallbackStarts == pc' \in ScriptPcs /\ (pc' # pc \/ idx' # idx)

RECURSIVE CountGo(_)
CountGo(q) == IF q = << >> THEN 0 ELSE (IF Head(q) = "go" THEN 1 ELSE 0) + CountGo(Tail(q))

\* C10 as stated: no go() request is ever dropped, so when the run is over every
\* request has run its body.
C10_EveryRequestRuns == RunOver => goExecuted = goRequested

\* C10, amended: go()'s body runs only on the dedicated thread; every request is
\* either still queued or has run its body, once; and a request runs its body
\* unless the host stops first.
C10_GoIsDeferredNotDropped ==
    /\ [](goThreads \subseteq {"dedicated"})
    /\ [](goRequested = goExecuted + CountGo(evq))
    /\ \A n \in 1..MaxGo : (goRequested >= n) ~> (goExecuted >= n \/ HostStopped)

\* C10 witness: a request made before the thread was in its loop has run its body
\* on the dedicated thread, and a second one is running it
C10_Witness ==
    /\ goRequested = 2 /\ goExecuted = 2 /\ goThreads = {"dedicated"} /\ pc = "main"

\* the call made no game-engine operation and threw an ArgumentError
Rejected == thrown' = "ArgumentError" /\ gameOp' = NoOp

\* C12: a game-facing call that fails the validation of its arity or of an
\* argument's type (chat without a string, blockAt with a point lacking a numeric
\* x, y or z, ...) throws an ArgumentError and makes no game-engine operation.
C12_ValidatedBeforeGame ==
    /\ [][\A argc \in 0..2, ok \in BOOLEAN :
            ((argc # 1 \/ ~ok) /\ (JsChat(argc, ok) \/ JsItemStackHeight(argc, ok)))
              => Rejected]_vars
    /\ [][\A argc \in 1..3, n \in BOOLEAN, b \in BOOLEAN :
            ((argc # 2 \/ ~n \/ ~b) /\ JsSetControlState(argc, n, b)) => Rejected]_vars
    /\ [][\A a \in BlockAtBadArgs : JsBlockAt(a[1], a[2], <<"num", "num", "num">>, <<150, 250, 349>>)
              => Rejected]_vars
    /\ [][\A k \in KindTriples, v \in Points :
            (k # <<"num", "num", "num">> /\ JsBlockAt(1, TRUE, k, v)) => Rejected]_vars

\* the timer call changed no timer state and threw an ArgumentError
TimerCallRejected == UNCHANGED timerVars /\ thrown' = "ArgumentError"

\* C13: a schedule call (two arguments: a function, a number) or a cancel call (one
\* argument: a number) made with another argument count or with an argument of
\* another type leaves the timer maps and the id counter as they were and throws
\* an ArgumentError.
C13_RejectedCallsChangeNothing ==
    /\ [][\A a \in ScheduleArgs :
            (a # <<2, TRUE, TRUE>>
               /\ (JsSetTimeout(a[1], a[2], a[3]) \/ JsSetInterval(a[1], a[2], a[3])))
              => TimerCallRejected]_vars
    /\ [][\A a \in ClearArgs, id \in 0..MaxTimerIds :
            (a # <<1, TRUE>> /\ JsClearTimeout(a[1], a[2], id)) => TimerCallRejected]_vars

\* C14: cancel(timer_id) on an id that is not registered (never issued, already
\* cancelled, or a one-shot that already fired) changes nothing and throws no
\* error; so cancelling twice is the same as cancelling once.
C14_CancelIsIdempotent ==
    [][\A id \in 0..MaxTimerIds :
          (id \notin DOMAIN m_timer_ptrs /\ JsClearTimeout(1, TRUE, id))
            => (UNCHANGED timerVars /\ thrown' = "none")]_vars

\* the delivered go() does not find the main script file
MissingFileGo == DeliverGo /\ GoBodyWith("dedicated", FALSE)

\* C15: when the main script file cannot be read, go() ends at once with the host
\* Exiting with code 1 and a diagnostic: no evaluation begins, no signal is
\* connected and the agent is not started, then or at any later time.
C15_MissingFileTerminates ==
    /\ [][MissingFileGo =>
            /\ pc' = "idle" /\ m_exiting' /\ warned'
            /\ IF m_started_game THEN threadExit' = 1 /\ gameShutdown' = 1 ELSE appExit' = 1
            /\ UNCHANGED <<connections, gameStarts, m_started_game>>]_vars
    /\ [][m_exiting => UNCHANGED <<connections, gameStarts, m_started_game>>]_vars

\* C15 witness: the first go() found no file: the host is Exiting with code 1 and
\* nothing was evaluated, connected or started
C15_Witness ==
    /\ goExecuted = 1 /\ m_exiting /\ appExit = 1 /\ warned /\ pc = "idle"
    /\ connections = 0 /\ gameStarts = 0 /\ ~m_started_game /\ exc = "none"

\* the code this step gives to the exit path it takes
StepCode == IF m_started_game THEN threadExit' ELSE appExit'

\* C16: a termination caused by exit() (the callback ends with SystemExit) is
\* signalled with code 0; code 1 is kept for a missing main script and for an
\* uncaught error other than SystemExit.
C16_ExitIsCode0 ==
    /\ [][(~m_exiting /\ (EndMain("exit") \/ EndHandler("exit")))
            => (m_exiting' /\ StepCode = 0)]_vars
    /\ [][(~m_exiting /\ (MissingFileGo \/ EndMain("error") \/ EndHandler("error")))
            => (m_exiting' /\ StepCode = 1)]_vars

\* n is v (in hundredths) rounded to the nearest integer, a half going up:
\* n - 0.5 <= v < n + 0.5
IsRoundHalfUp(n, v) == 2 * Scale * n - Scale <= 2 * v /\ 2 * v < 2 * Scale * n + Scale

\* C17: blockAt, given a point with numeric x, y, z, asks the game engine for the
\* block at the point whose coordinates are those rounded to the nearest integer,
\* halves going up, negative values and exact halves included; (1.5, 2.5, 3.49) is
\* asked as (2, 3, 3).
C17_BlockAtRoundsHalfUp ==
    /\ [][\A v \in Points :
            JsBlockAt(1, TRUE, <<"num", "num", "num">>, v)
              => /\ gameOp'.op = "blockAt" /\ thrown' = "none"
                 /\ \A i \in 1..3 : IsRoundHalfUp(gameOp'.pt[i], v[i])]_vars
    /\ [][JsBlockAt(1, TRUE, <<"num", "num", "num">>, <<150, 250, 349>>)
            => gameOp'.pt = <<2, 3, 3>>]_vars

\* C17 witness: blockAt was called with (-2.5, 2.5, 3.49) and asked for (-2, 3, 3)
C17_Witness == gameOp = [op |-> "blockAt", pt |-> <<-2, 3, 3>>] /\ thrown = "none"

\* a one-shot timer's callback is running
OneShotRunning == pc = "timer" /\ ~tf.repeat

\* C18: a one-shot timer's entry is removed before its callback is called. While
\* the callback runs the fired id is not registered; a cancel of that id from
\* inside the callback changes nothing; a timer scheduled inside the callback
\* gets a new id, other than the fired one, and stays registered when the
\* callback ends.
C18_RemovedBeforeCallback ==
    /\ [](OneShotRunning =>
            /\ tf.id \notin DOMAIN m_timer_ptrs
            /\ \A p \in DOMAIN m_script_timers : m_script_timers[p].id # tf.id)
    /\ [][\A a \in ClearArgs :
            (OneShotRunning /\ JsClearTimeout(a[1], a[2], tf.id)) => UNCHANGED timerVars]_vars
    /\ [][(OneShotRunning /\ m_timer_count' # m_timer_count)
            => /\ m_timer_count # tf.id
               /\ DOMAIN m_timer_ptrs' = DOMAIN m_timer_ptrs \cup {m_timer_count}]_vars
    /\ [][\A o \in Outcomes : EndTimer(o) => UNCHANGED timerVars]_vars

\* C18 witness: the one-shot timer 0 is being called, and timer 1, scheduled by
\* the callback at the address timer 0 gave back, is registered
C18_Witness ==
    /\ OneShotRunning /\ tf.id = 0 /\ m_timer_count = 2
    /\ DOMAIN m_timer_ptrs = {1} /\ m_timer_ptrs[1] = 1

\* what go() does once the main script was evaluated without fault
startVars == <<m_started_game, connections, gameStarts>>

\* C19: the agent is started, and the game's signals connected, only by a go()
\* whose main script ended without an uncaught error and with the host not
\* Exiting; a main script that ends with an uncaught error or with exit() leaves
\* the host Exiting and starts and connects nothing, so no go() both starts the
\* agent and leaves the host Exiting.
C19_StartedOnlyAfterCleanMain ==
    /\ [][startVars' # startVars =>
            /\ pc = "main" /\ EndMain("none") /\ ~m_exiting'
            /\ m_started_game' /\ connections' = connections + 1
            /\ gameStarts' = gameStarts + 1]_vars
    /\ [][(EndMain("error") \/ EndMain("exit")) => (m_exiting' /\ UNCHANGED startVars)]_vars
    /\ [][(\E o \in Outcomes : EndMain(o)) => ~(m_exiting' /\ startVars' # startVars)]_vars
    /\ [](~m_started_game => (connections = 0 /\ gameStarts = 0))

\* C19 witness: the first main script ended with exit(): Exiting, nothing started
C19_Witness ==
    /\ goExecuted = 1 /\ pc = "idle" /\ exc = "exit" /\ m_exiting /\ appExit = 1
    /\ ~m_started_game /\ connections = 0 /\ gameStarts = 0

\* C20: a step that makes the host Exiting signals the code through the agent's
\* shutdown path (the thread's loop stopped, the game shut down, the same code to
\* both) if the agent had been started and directly to the application if not,
\* never both; the exiting flag is set with it and is never reset.
C20_ShutdownPathFollowsStart ==
    /\ [][m_exiting => m_exiting']_vars
    /\ [][(m_exiting' # m_exiting \/ <<appExit, threadExit, gameShutdown>>' # <<appExit, threadExit, gameShutdown>>)
            => /\ m_exiting'
               /\ IF m_started_game
                    THEN /\ thr' = "exited" /\ threadExit' # NoCode
                         /\ gameShutdown' = threadExit' /\ appExit' = appExit
                    ELSE /\ appExit' # NoCode
                         /\ UNCHANGED <<thr, threadExit, gameShutdown>>]_vars
    /\ [](threadExit = gameShutdown /\ (m_exiting <=> ExitCodes # {}))

\* C20 witness: a started host became Exiting: the loop is stopped and the game
\* shut down with code 1, nothing was signalled to the application
C20_Witness ==
    /\ m_exiting /\ m_started_game /\ thr = "exited"
    /\ threadExit = 1 /\ gameShutdown = 1 /\ appExit = NoCode

\* the two timer maps hold the same timers: each id's QTimer has an entry that
\* carries that id, and each entry's id leads back to its QTimer
MapsAgree ==
    /\ \A i \in DOMAIN m_timer_ptrs :
         /\ m_timer_ptrs[i] \in DOMAIN m_script_timers
         /\ m_script_timers[m_timer_ptrs[i]].id = i
    /\ \A p \in DOMAIN m_script_timers :
         /\ m_script_timers[p].id \in DOMAIN m_timer_ptrs
         /\ m_timer_ptrs[m_script_timers[p].id] = p

\* C21: ids are 0, 1, 2, ... in the order of the successful schedule calls: the
\* counter starts at 0 and never goes back, every registered id is below it, a
\* timer is registered only by a step that hands out the counter's value, which
\* is not registered, and advances the counter by one (so no id is handed out
\* twice, whatever was cancelled or fired); and the two maps always agree.
C21_IdsFreshAndMapsAgree ==
    /\ m_timer_count = 0
    /\ [](m_timer_count >= 0 /\ \A i \in DOMAIN m_timer_ptrs : 0 <= i /\ i < m_timer_count)
    /\ [][m_timer_count' >= m_timer_count]_vars
    /\ [][(m_timer_count' # m_timer_count
             \/ ~(DOMAIN m_timer_ptrs' \subseteq DOMAIN m_timer_ptrs)
             \/ ~(DOMAIN m_script_timers' \subseteq DOMAIN m_script_timers))
            => /\ m_timer_count' = m_timer_count + 1
               /\ m_timer_count \notin DOMAIN m_timer_ptrs
               /\ DOMAIN m_timer_ptrs' = DOMAIN m_timer_ptrs \cup {m_timer_count}]_vars
    /\ []MapsAgree

\* C21 witness: timer 0 was scheduled and fired, timer 1 scheduled afterwards got
\* the id 1 at the address timer 0 gave back, and the loop is idle
C21_Witness ==
    /\ pc = "idle" /\ m_timer_count = 2 /\ fireCount[0] = 1
    /\ DOMAIN m_timer_ptrs = {1} /\ m_timer_ptrs[1] = 1
    /\ DOMAIN m_script_timers = {1} /\ m_script_timers[1].id = 1

=============================================================================
